---- MODULE Spec2Model ----
(***************************************************************************)
(* Model of the benchmark evaluation engine of BAAI_heartbench:            *)
(*   answer_parser.py      AnswerParser                                    *)
(*   evaluate_benchmark.py AnswerExtractor, AnswerEvaluator,               *)
(*                         BenchmarkEvaluator (the second, effective       *)
(*                         definition of evaluate), main                   *)
(* Strings are sequences of one-character strings, so that the regular     *)
(* expressions of the parsers are computed character by character.         *)
(***************************************************************************)
EXTENDS Integers, Sequences, FiniteSets, TLC

\* ------------------------------------------------------------------------
\* Characters and strings
\* ------------------------------------------------------------------------
UpperSeq ==
  <<"A","B","C","D","E","F","G","H","I","J","K","L","M",
    "N","O","P","Q","R","S","T","U","V","W","X","Y","Z">>

LowerSeq ==
  <<"a","b","c","d","e","f","g","h","i","j","k","l","m",
    "n","o","p","q","r","s","t","u","v","w","x","y","z">>

Upper == {UpperSeq[i] : i \in DOMAIN UpperSeq}

Lower == {LowerSeq[i] : i \in DOMAIN LowerSeq}

Digit == {"0","1","2","3","4","5","6","7","8","9"}

\* \w of the re module
Word == Upper \cup Lower \cup Digit \cup {"_"}

\* \s of the re module, also what str.strip() removes
Space == {" ", "\n", "\t", "\r"}

ToUpper(c) ==
  IF c \in Lower THEN UpperSeq[CHOOSE i \in DOMAIN LowerSeq : LowerSeq[i] = c] ELSE c

ToLower(c) ==
  IF c \in Upper THEN LowerSeq[CHOOSE i \in DOMAIN UpperSeq : UpperSeq[i] = c] ELSE c

\* str.upper()
UpperStr(s) == [i \in DOMAIN s |-> ToUpper(s[i])]

Min(S) == CHOOSE x \in S : \A y \in S : x <= y

Max(S) == CHOOSE x \in S : \A y \in S : x >= y

\* s[i:j] with 1-based i and exclusive j
Slice(s, i, j) == SubSeq(s, i, j - 1)

\* the first position >= p that holds no whitespace (Len(s)+1 at the end)
WsEnd(s, p) == Min({i \in p..Len(s) + 1 : i = Len(s) + 1 \/ s[i] \notin Space})

\* the first position >= p that holds whitespace (Len(s)+1 at the end)
NonWsEnd(s, p) == Min({i \in p..Len(s) + 1 : i = Len(s) + 1 \/ s[i] \in Space})

\* str.strip()
Strip(s) ==
  LET keep == {i \in DOMAIN s : s[i] \notin Space}
  IN IF keep = {} THEN <<>> ELSE SubSeq(s, Min(keep), Max(keep))

\* the characters of s that satisfy keep, in order
RECURSIVE FilterChars(_, _)
FilterChars(s, keep) ==
  IF s = <<>> THEN <<>>
  ELSE IF Head(s) \in keep THEN <<Head(s)>> \o FilterChars(Tail(s), keep)
  ELSE FilterChars(Tail(s), keep)

\* the literal lit (lower case) at position i of s, ignoring case
MatchesAt(s, i, lit) ==
  /\ i >= 1
  /\ i + Len(lit) - 1 <= Len(s)
  /\ \A k \in DOMAIN lit : ToLower(s[i + k - 1]) = lit[k]

IsWordAt(s, i) == i \in DOMAIN s /\ s[i] \in Word

\* \b between s[i-1] and s[i]
Boundary(s, i) == IsWordAt(s, i - 1) # IsWordAt(s, i)

\* order-preserving removal of duplicates (the seen/unique loops)
RECURSIVE Unique(_)
Unique(xs) ==
  IF xs = <<>> THEN <<>>
  ELSE LET init == Unique(SubSeq(xs, 1, Len(xs) - 1))
           last == xs[Len(xs)]
       IN IF \E i \in DOMAIN init : init[i] = last THEN init ELSE Append(init, last)

\* ",".join(xs) for a list of one-character strings
RECURSIVE JoinComma(_)
JoinComma(xs) ==
  IF xs = <<>> THEN <<>>
  ELSE IF Len(xs) = 1 THEN <<xs[1]>>
  ELSE <<xs[1], ",">> \o JoinComma(Tail(xs))

\* the characters of s at the positions P, in order
RECURSIVE PickAt(_, _, _)
PickAt(s, P, i) ==
  IF i > Len(s) THEN <<>>
  ELSE (IF i \in P THEN <<s[i]>> ELSE <<>>) \o PickAt(s, P, i + 1)

\* ------------------------------------------------------------------------
\* The option pattern  \b([A-Z])\.?\s*[^\s]*(?:\s+[A-Z]\.?\s*[^\s]*)*
\* (answer_parser.py:61 and evaluate_benchmark.py:164), matched greedily
\* ------------------------------------------------------------------------
OptDot(s, a) == IF a <= Len(s) /\ s[a] = "." THEN a + 1 ELSE a

\* [A-Z]\.?\s*[^\s]* with the letter at i: the position after the match
ChunkEnd(s, i) == NonWsEnd(s, WsEnd(s, OptDot(s, i + 1)))

\* (?:\s+[A-Z]\.?\s*[^\s]*)* from position c: the position after the match
RECURSIVE ChainEnd(_, _)
ChainEnd(s, c) ==
  LET w == WsEnd(s, c)
  IN IF w > c /\ w <= Len(s) /\ s[w] \in Upper THEN ChainEnd(s, ChunkEnd(s, w)) ELSE c

OptionMatchEnd(s, i) == ChainEnd(s, ChunkEnd(s, i))

OptionStarts(s, pos) == {i \in pos..Len(s) : s[i] \in Upper /\ Boundary(s, i)}

\* re.findall / re.sub: the non-overlapping matches <<start, end>> from pos on
RECURSIVE OptionMatches(_, _)
OptionMatches(s, pos) ==
  IF OptionStarts(s, pos) = {} THEN <<>>
  ELSE LET i == Min(OptionStarts(s, pos))
           e == OptionMatchEnd(s, i)
       IN <<<<i, e>>>> \o OptionMatches(s, e)

\* ------------------------------------------------------------------------
\* AnswerParser.parse_answer_with_reason
\* ------------------------------------------------------------------------
AnswerLabel == <<"a","n","s","w","e","r",":">>

ReasonLabel == <<"r","e","a","s","o","n",":">>

\* [A-Z,;\s] under re.IGNORECASE
AnswerClass == Upper \cup Lower \cup {",", ";"} \cup Space

\* (?:\n|Reason:|$) under re.IGNORECASE | re.MULTILINE, at position e
AnswerTerminator(s, e) ==
  e = Len(s) + 1 \/ s[e] = "\n" \/ MatchesAt(s, e, ReasonLabel)

ClassEnd(s, j) ==
  Min({i \in j..Len(s) + 1 : i = Len(s) + 1 \/ s[i] \notin AnswerClass})

\* the ends the lazy group ([A-Z,;\s]+?) can take when it starts at j
AnswerGroupEnds(s, j) == {e \in j + 1..ClassEnd(s, j) : AnswerTerminator(s, e)}

\* the starts \s* can leave to the group, p being the position after "Answer:"
AnswerGroupStarts(s, p) ==
  {j \in p..WsEnd(s, p) : j <= Len(s) /\ AnswerGroupEnds(s, j) # {}}

AnswerMatchStarts(s) ==
  {i \in DOMAIN s : MatchesAt(s, i, AnswerLabel)
                    /\ AnswerGroupStarts(s, i + Len(AnswerLabel)) # {}}

\* answer_match.group(1): leftmost match, \s* greedy, the group lazy
AnswerGroup(s) ==
  LET i == Min(AnswerMatchStarts(s))
      j == Max(AnswerGroupStarts(s, i + Len(AnswerLabel)))
      e == Min(AnswerGroupEnds(s, j))
  IN Slice(s, j, e)

\* where (.+?) starts, q being the position after "Reason:" (0: no match)
ReasonStart(s, q) ==
  LET w == WsEnd(s, q)
  IN IF w <= Len(s) THEN w ELSE IF w > q THEN w - 1 ELSE 0

ReasonMatchStarts(s) ==
  {i \in DOMAIN s : MatchesAt(s, i, ReasonLabel)
                    /\ ReasonStart(s, i + Len(ReasonLabel)) # 0}

\* (?:\n\n|\Z) under re.DOTALL
ReasonEnd(s, j) ==
  Min({e \in j + 1..Len(s) + 1 :
         e = Len(s) + 1 \/ (s[e] = "\n" /\ e + 1 <= Len(s) /\ s[e + 1] = "\n")})

\* reason_match.group(1).strip()
ReasonGroup(s) ==
  LET i == Min(ReasonMatchStarts(s))
      j == ReasonStart(s, i + Len(ReasonLabel))
  IN Strip(Slice(s, j, ReasonEnd(s, j)))

\* re.findall(r'\b([A-Z])\.?\b', output)
LetterPositions(s) ==
  {i \in DOMAIN s :
     /\ s[i] \in Upper
     /\ Boundary(s, i)
     /\ \/ (i + 1 <= Len(s) /\ s[i + 1] = "." /\ Boundary(s, i + 2))
        \/ Boundary(s, i + 1)}

\* re.sub(option pattern, '', output)
RemoveOptions(s) ==
  LET ms == OptionMatches(s, 1)
      cut == {i \in DOMAIN s : \E k \in DOMAIN ms : ms[k][1] <= i /\ i < ms[k][2]}
  IN PickAt(s, DOMAIN s \ cut, 1)

\* re.sub(r'Answer:.*', '', s, flags=re.IGNORECASE): from each label to the
\* end of its line
RemoveAnswerLines(s) ==
  LET cut == {i \in DOMAIN s :
                \E a \in DOMAIN s :
                  /\ MatchesAt(s, a, AnswerLabel)
                  /\ a <= i
                  /\ \A k \in a..i : s[k] # "\n"}
  IN PickAt(s, DOMAIN s \ cut, 1)

parse_answer_with_reason(raw) ==
  LET output == Strip(raw)
  IN IF AnswerMatchStarts(output) # {}
     THEN [answer |-> FilterChars(UpperStr(Strip(AnswerGroup(output))),
                                   Upper \cup {",", ";"}),
           reason |-> IF ReasonMatchStarts(output) # {}
                      THEN ReasonGroup(output) ELSE <<>>]
     ELSE IF LetterPositions(output) # {}
     THEN [answer |-> JoinComma(Unique(PickAt(output, LetterPositions(output), 1))),
           reason |-> IF ReasonMatchStarts(output) # {}
                      THEN ReasonGroup(output)
                      ELSE Strip(RemoveAnswerLines(RemoveOptions(output)))]
     ELSE [answer |-> output, reason |-> <<>>]

\* ------------------------------------------------------------------------
\* AnswerExtractor
\* ------------------------------------------------------------------------
\* where ([^\n;]+) starts after \s*, p being the position after "X." (0: none)
FullBodyStart(s, p) ==
  LET J == {j \in p..WsEnd(s, p) : j <= Len(s) /\ s[j] \notin {"\n", ";"}}
  IN IF J = {} THEN 0 ELSE Max(J)

FullBodyEnd(s, j) ==
  Min({e \in j..Len(s) + 1 : e = Len(s) + 1 \/ s[e] \in {"\n", ";"}})

FullStarts(s, pos) ==
  {i \in pos..Len(s) :
     /\ s[i] \in Upper
     /\ i + 1 <= Len(s)
     /\ s[i + 1] = "."
     /\ FullBodyStart(s, i + 2) # 0}

\* re.findall(r'([A-Z])\.\s*([^\n;]+)', text) as the strings "X. body"
RECURSIVE FullMatches(_, _)
FullMatches(s, pos) ==
  IF FullStarts(s, pos) = {} THEN <<>>
  ELSE LET i == Min(FullStarts(s, pos))
           j == FullBodyStart(s, i + 2)
           e == FullBodyEnd(s, j)
       IN <<(<<s[i], ".", " ">> \o Strip(Slice(s, j, e)))>> \o FullMatches(s, e)

\* the list of predicted entries, each a string
extract_answers(text) ==
  LET ms == OptionMatches(text, 1)
      matches == [k \in DOMAIN ms |-> <<text[ms[k][1]]>>]
  IN IF matches # <<>> THEN Unique(matches) ELSE FullMatches(text, 1)

\* a faulty variant: the letters in descending order
DescendingLetters(S) ==
  LET up == FilterChars(UpperSeq, S)
  IN [k \in DOMAIN up |-> <<up[Len(up) + 1 - k]>>]

\* sorted(set(letters)) as a list of one-letter strings
SortedLetters(S) == [k \in DOMAIN FilterChars(UpperSeq, S) |-> <<FilterChars(UpperSeq, S)[k]>>]

LettersOf(s) == {s[i] : i \in {k \in DOMAIN s : s[k] \in Upper}}

\* ([A-Z](?:[,;]\s*[A-Z])*) greedy, c being the position after a letter
RECURSIVE ExplicitChainEnd(_, _)
ExplicitChainEnd(s, c) ==
  IF c <= Len(s) /\ s[c] \in {",", ";"}
     /\ WsEnd(s, c + 1) <= Len(s) /\ s[WsEnd(s, c + 1)] \in Upper
  THEN ExplicitChainEnd(s, WsEnd(s, c + 1) + 1)
  ELSE c

\* ^([A-Z](?:[,;]\s*[A-Z])*)\.\s*
ExplicitMatch(s) ==
  /\ Len(s) >= 1
  /\ s[1] \in Upper
  /\ ExplicitChainEnd(s, 2) <= Len(s)
  /\ s[ExplicitChainEnd(s, 2)] = "."

\* ^([A-Z])\.\s*
SingleMatch(s) == Len(s) >= 2 /\ s[1] \in Upper /\ s[2] = "."

\* the ends ([A-Z](?:\s*[,;]\s*[A-Z])+) can take, c being the position
\* after a letter
RECURSIVE SeparatedChainEnds(_, _)
SeparatedChainEnds(s, c) ==
  LET w1 == WsEnd(s, c)
      w2 == WsEnd(s, w1 + 1)
  IN IF w1 <= Len(s) /\ s[w1] \in {",", ";"} /\ w2 <= Len(s) /\ s[w2] \in Upper
     THEN {w2 + 1} \cup SeparatedChainEnds(s, w2 + 1)
     ELSE {}

\* the ends followed by (?:\s|\.|$)
SeparatedEnds(s) ==
  IF Len(s) >= 1 /\ s[1] \in Upper
  THEN {e \in SeparatedChainEnds(s, 2) :
          e = Len(s) + 1 \/ s[e] \in Space \/ s[e] = "."}
  ELSE {}

\* re.findall(r'\b([A-Z])(?:\s*[.,;]|\s*$)', gt_text)
FallbackPositions(s) ==
  {i \in DOMAIN s :
     /\ s[i] \in Upper
     /\ Boundary(s, i)
     /\ \/ WsEnd(s, i + 1) = Len(s) + 1
        \/ s[WsEnd(s, i + 1)] \in {".", ",", ";"}}

\* re.sub(r'^[A-Z]\.\s*', '', gt_text)
RemoveOptionPrefix(s) ==
  IF SingleMatch(s) THEN Slice(s, WsEnd(s, 3), Len(s) + 1) ELSE s

parse_ground_truth(gt) ==
  LET gt_text == Strip(gt)
  IN IF ExplicitMatch(gt_text)
     THEN SortedLetters(LettersOf(Slice(gt_text, 1, ExplicitChainEnd(gt_text, 2))))
     ELSE IF SingleMatch(gt_text)
     THEN <<(<<gt_text[1]>>)>>
     ELSE IF SeparatedEnds(gt_text) # {}
     THEN SortedLetters(LettersOf(Slice(gt_text, 1, Max(SeparatedEnds(gt_text)))))
     ELSE IF FallbackPositions(gt_text) # {}
     THEN SortedLetters({gt_text[i] : i \in FallbackPositions(gt_text)})
     ELSE <<Strip(RemoveOptionPrefix(gt_text))>>

\* ------------------------------------------------------------------------
\* AnswerEvaluator.  A float 0.0 / 1.0 is the integer 0 / 1.
\* ------------------------------------------------------------------------
\* p[0] if len(p) > 0 else ''
FirstChar(p) == IF Len(p) > 0 THEN <<p[1]>> ELSE <<>>

ToSet(xs) == {xs[i] : i \in DOMAIN xs}

\* faulty variants: a comparison of the lists as they are, and a hit that
\* is granted to an exact match only
CompareLists(predicted, ground_truth) ==
  [is_correct |-> predicted = ground_truth,
   metrics |-> [accuracy |-> IF predicted = ground_truth THEN 1 ELSE 0]]

HitOnlyWhenExact(predicted, ground_truth) ==
  LET pred_set == {FirstChar(predicted[i]) : i \in DOMAIN predicted}
      is_exact_match == predicted # <<>> /\ pred_set = ToSet(ground_truth)
  IN [is_correct |-> is_exact_match,
      metrics |-> [accuracy |-> IF is_exact_match THEN 1 ELSE 0,
                   hit |-> IF is_exact_match THEN 1 ELSE 0]]

\* a faulty variant: two empty lists are a match, tested before the lists
\* are tested for emptiness
EmptyMatchesEmpty(predicted, ground_truth) ==
  LET pred_set == {FirstChar(predicted[i]) : i \in DOMAIN predicted}
      gt_set == ToSet(ground_truth)
      is_exact_match == pred_set = gt_set
  IN IF pred_set = {} /\ gt_set = {}
     THEN [is_correct |-> TRUE, metrics |-> [accuracy |-> 1, hit |-> 1]]
     ELSE IF pred_set = {} \/ gt_set = {}
     THEN [is_correct |-> FALSE, metrics |-> [accuracy |-> 0, hit |-> 0]]
     ELSE [is_correct |-> is_exact_match,
           metrics |-> [accuracy |-> IF is_exact_match THEN 1 ELSE 0,
                        hit |-> IF pred_set \cap gt_set # {} THEN 1 ELSE 0]]

evaluate_single_choice(predicted, ground_truth) ==
  IF predicted = <<>> \/ ground_truth = <<>>
  THEN [is_correct |-> FALSE, metrics |-> [accuracy |-> 0]]
  ELSE LET pred_letters == {FirstChar(predicted[i]) : i \in DOMAIN predicted}
           gt_letters == ToSet(ground_truth)
           is_correct == pred_letters = gt_letters
       IN [is_correct |-> is_correct,
           metrics |-> [accuracy |-> IF is_correct THEN 1 ELSE 0]]

evaluate_multiple_choice(predicted, ground_truth) ==
  IF predicted = <<>> \/ ground_truth = <<>>
  THEN [is_correct |-> FALSE, metrics |-> [accuracy |-> 0, hit |-> 0]]
  ELSE LET pred_set == {FirstChar(predicted[i]) : i \in DOMAIN predicted}
           gt_set == ToSet(ground_truth)
           is_exact_match == pred_set = gt_set
           hit == IF pred_set \cap gt_set # {} THEN 1 ELSE 0
       IN IF pred_set = {} /\ gt_set = {}
          THEN [is_correct |-> TRUE, metrics |-> [accuracy |-> 1, hit |-> 1]]
          ELSE IF pred_set = {} \/ gt_set = {}
          THEN [is_correct |-> FALSE, metrics |-> [accuracy |-> 0, hit |-> 0]]
          ELSE [is_correct |-> is_exact_match,
                metrics |-> [accuracy |-> IF is_exact_match THEN 1 ELSE 0,
                             hit |-> hit]]

evaluate(predicted, ground_truth, is_multiple_choice) ==
  IF is_multiple_choice
  THEN evaluate_multiple_choice(predicted, ground_truth)
  ELSE evaluate_single_choice(predicted, ground_truth)

\* ------------------------------------------------------------------------
\* Bounds
\* ------------------------------------------------------------------------
\* questions of the input set
NumQuestions == 3

\* largest thread pool (max_workers ranges over 1..MaxWorkers)
MaxWorkers == 2

\* writes of detailed_results.json that may fail in one run
MaxDiskFailures == 1

\* times the process may be stopped and started again
MaxRestarts == 1

\* longest list of answers handed to AnswerEvaluator on its own
MaxAnswers == 2

\* ------------------------------------------------------------------------
\* Questions (Question dataclass) and the stub collaborators
\* ------------------------------------------------------------------------
Question(qid, field, question_type, sequence_view, is_multiple_choice, ground_truth) ==
  [qid |-> qid, field |-> field, patient_id |-> "p1",
   question_type |-> question_type, sequence_view |-> sequence_view,
   is_multiple_choice |-> is_multiple_choice, ground_truth |-> ground_truth,
   original_nii |-> "nii"]

QuestionPool ==
  <<Question("q1", "Wall", "Single Choice", "cine_sax", FALSE,
             <<"B", ".", " ", "T", "h", "i", "n">>),
    Question("q2", "LGE", "Multiple Choice", "LGE_sax", TRUE,
             <<"A", ",", " ", "C", ".", " ", "x">>),
    Question("q3", "Wall", "Multiple Choice", "LGE_sax", TRUE,
             <<"C", ".", " ", "S", "e", "p">>),
    Question("q4", "LGE", "Single Choice", "cine_sax", FALSE,
             <<"A", ".", " ", "N", "o">>),
    Question("q5", "Wall", "Single Choice", "LGE_sax", FALSE,
             <<"D", ".", " ", "x">>)>>

\* the input set handed to evaluate: unique qids
InputQuestions == SubSeq(QuestionPool, 1, NumQuestions)

\* "Answer: <letters>\nReason: ok", the letters being the right options
GoodLetters == <<(<<"B">>), (<<"A", ",", "C">>), (<<"C">>), (<<"A">>), (<<"D">>)>>

GoodReply(i) ==
  <<"A", "n", "s", "w", "e", "r", ":", " ">> \o GoodLetters[i]
    \o <<"\n", "R", "e", "a", "s", "o", "n", ":", " ", "o", "k">>

\* what test_model.predict does for question i under the deterministic stub
\* client k: a reply text, or an exception
ReplyKinds == <<"good", "wrong", "blank", "raise", "error">>

ReplyKind(k, i) ==
  IF k = 0 THEN "good" ELSE ReplyKinds[((i + k) % Len(ReplyKinds)) + 1]

\* what the predict of GPTModelAPI, KsyunModelAPI and QwenModelAPI returns
\* when the provider fails for good (retries exhausted, or an error that is
\* not retried): f"Error: {str(e)}", here with the message "x"
ProviderFailure == <<"E", "r", "r", "o", "r", ":", " ", "x">>

Reply(k, i) ==
  LET kind == ReplyKind(k, i)
  IN [raises |-> kind = "raise",
      text |-> IF kind = "good" THEN GoodReply(i)
               ELSE IF kind = "wrong" THEN <<"E">>
               ELSE IF kind = "blank" THEN <<" ">>
               ELSE IF kind = "error" THEN ProviderFailure
               ELSE <<>>]

Stubs == 0..Len(ReplyKinds)

\* what judge_model.predict does for question i under the judge stub j: a
\* JSON object with is_correct, text holding no JSON object, or an exception
JudgeKinds == <<"true", "false", "nojson", "raise">>

JudgeKind(j, i) == JudgeKinds[((i + j) % Len(JudgeKinds)) + 1]

JudgeReply(j, i) ==
  LET kind == JudgeKind(j, i)
  IN [raises |-> kind = "raise",
      json |-> kind \in {"true", "false"},
      is_correct |-> kind = "true"]

\* 0: no judge model (use_judge false); otherwise the judge stub
JudgeStubs == 0..Len(JudgeKinds)

\* ------------------------------------------------------------------------
\* Scoring one question: the body of the loop of _evaluate_sequential and of
\* process_question up to result_item
\* ------------------------------------------------------------------------
Get(r, key, default) == IF key \in DOMAIN r THEN r[key] ELSE default

\* not answer_text or not answer_text.strip()
IsBlank(text) == Strip(text) = <<>>

_parse_judge_output(judge_output) ==
  IF judge_output.json THEN [is_correct |-> judge_output.is_correct]
  ELSE [is_correct |-> FALSE]

\* the rule-based branch, also the fallback of the judge branch
RuleBased(question, predicted_answers, gt_answers) ==
  evaluate(predicted_answers, gt_answers, question.is_multiple_choice)

\* the judge branch: is_correct is the judge's, hit is computed from the sets
JudgeBased(question, predicted_answers, gt_answers, judge_output) ==
  LET is_correct == _parse_judge_output(judge_output).is_correct
      pred_set == {FirstChar(predicted_answers[i]) : i \in DOMAIN predicted_answers}
      gt_set == ToSet(gt_answers)
      hit == IF pred_set \cap gt_set # {} THEN 1 ELSE 0
      accuracy == IF is_correct THEN 1 ELSE 0
  IN [is_correct |-> is_correct,
      metrics |-> IF question.is_multiple_choice
                  THEN [accuracy |-> accuracy, hit |-> hit]
                  ELSE [accuracy |-> accuracy]]

\* a faulty variant: the score is kept as it is when the answer is blank
NoDowngrade(question, answer_text, scored) == scored

\* is_correct and (not answer_text or not answer_text.strip())
Downgrade(question, answer_text, scored) ==
  IF scored.is_correct /\ IsBlank(answer_text)
  THEN [is_correct |-> FALSE,
        metrics |-> IF question.is_multiple_choice
                    THEN [hit |-> 0] @@ [scored.metrics EXCEPT !.accuracy = 0]
                    ELSE [scored.metrics EXCEPT !.accuracy = 0]]
  ELSE scored

\* accuracy made consistent with is_correct
ConsistentAccuracy(is_correct, metrics) ==
  LET accuracy == Get(metrics, "accuracy", IF is_correct THEN 1 ELSE 0)
  IN IF is_correct /\ accuracy # 1 THEN 1
     ELSE IF ~is_correct /\ accuracy # 0 THEN 0
     ELSE accuracy

\* result_item; legacy is <<>> when the JSON value of is_correct is the
\* boolean, and <<metrics>> when it is the legacy list [is_correct, metrics]
ResultItem(question, answer_text, reason, raw_output, scored) ==
  LET item == [qid |-> question.qid, field |-> question.field,
               patient_id |-> question.patient_id,
               question_type |-> question.question_type,
               sequence_view |-> question.sequence_view,
               original_nii |-> question.original_nii,
               gt |-> question.ground_truth,
               answer |-> answer_text, reason |-> reason,
               is_correct |-> scored.is_correct, legacy |-> <<>>,
               accuracy |-> ConsistentAccuracy(scored.is_correct, scored.metrics),
               raw_output |-> raw_output]
  IN IF question.is_multiple_choice
     THEN item @@ [hit |-> Get(scored.metrics, "hit", 0)]
     ELSE item

\* "if not answer_text: answer_text = raw_output"
AnswerOf(raw_output, parsed) ==
  [raw_output |-> raw_output,
   answer |-> IF parsed.answer = <<>> THEN raw_output ELSE parsed.answer,
   reason |-> parsed.reason]

\* a faulty variant: the text of the exception is kept as the reply
RaiseAsText(reply) ==
  IF reply.raises THEN [raw_output |-> <<"E">>, answer |-> <<"E">>, reason |-> <<>>]
  ELSE AnswerOf(reply.text, parse_answer_with_reason(reply.text))

\* test_model.predict and the parse of its output; when predict raises,
\* raw_output, answer_text and reason are ""
Predicted(reply) ==
  IF reply.raises THEN [raw_output |-> <<>>, answer |-> <<>>, reason |-> <<>>]
  ELSE AnswerOf(reply.text, parse_answer_with_reason(reply.text))

\* the judge's verdict, or the rules when there is no judge or it raises
Scored(question, judged, judge_output, predicted_answers, gt_answers) ==
  IF judged /\ ~judge_output.raises
  THEN JudgeBased(question, predicted_answers, gt_answers, judge_output)
  ELSE RuleBased(question, predicted_answers, gt_answers)

\* scoring, the downgrade of a blank answer, result_item
ScoreAnswer(question, judged, judge_output, p) ==
  ResultItem(question, p.answer, p.reason, p.raw_output,
             Downgrade(question, p.answer,
                       Scored(question, judged, judge_output,
                              extract_answers(p.answer),
                              parse_ground_truth(question.ground_truth))))

\* prompt, model call, parsing, scoring: reply is what predict does,
\* judge_output what the judge does (judged: use_judge and judge_model)
ProcessQuestion(question, reply, judged, judge_output) ==
  ScoreAnswer(question, judged, judge_output, Predicted(reply))

\* ------------------------------------------------------------------------
\* Aggregates: the defaultdict buckets {'total', 'correct', 'hit'}.  A
\* quotient a / b is kept as the fraction <<a, b>>.
\* ------------------------------------------------------------------------
NewBucket == [total |-> 0, correct |-> 0, hit |-> 0]

\* bool(is_correct_raw) of a stored JSON value: a non-empty list is true
Truthy(r) == IF r.legacy # <<>> THEN TRUE ELSE r.is_correct

\* one pass of the three "+=" lines on the bucket of r[dim]
AddToBuckets(buckets, r, dim, is_correct) ==
  LET key == r[dim]
      old == IF key \in DOMAIN buckets THEN buckets[key] ELSE NewBucket
      is_multiple == r.question_type = "Multiple Choice"
      new == [total |-> old.total + 1,
              correct |-> old.correct + (IF is_correct THEN 1 ELSE 0),
              hit |-> old.hit + (IF is_multiple THEN Get(r, "hit", 0) ELSE 0)]
  IN [k \in DOMAIN buckets \cup {key} |-> IF k = key THEN new ELSE buckets[k]]

\* the loop "for result in results" over one dimension
RECURSIVE FoldBuckets(_, _, _)
FoldBuckets(buckets, results, dim) ==
  IF results = <<>> THEN buckets
  ELSE FoldBuckets(AddToBuckets(buckets, Head(results), dim, Truthy(Head(results))),
                   Tail(results), dim)

\* "Calculate averages": accuracy = correct / total, hit /= total
Averages(buckets) ==
  [k \in DOMAIN buckets |->
     IF buckets[k].total > 0
     THEN [total |-> buckets[k].total, correct |-> buckets[k].correct,
           hit |-> <<buckets[k].hit, buckets[k].total>>,
           accuracy |-> <<buckets[k].correct, buckets[k].total>>]
     ELSE buckets[k]]

\* sum(1 for ... if ...) over the list of the conditions
RECURSIVE CountTrue(_)
CountTrue(flags) ==
  IF flags = <<>> THEN 0
  ELSE (IF Head(flags) THEN 1 ELSE 0) + CountTrue(Tail(flags))

NoBuckets == [k \in {} |-> NewBucket]

\* the summary _update_summary computes from all_results
SummaryOf(all_results) ==
  LET total == Len(all_results)
      correct == CountTrue([i \in DOMAIN all_results |-> Truthy(all_results[i])])
  IN [overall |-> [total |-> total, correct |-> correct,
                   accuracy |-> IF total > 0 THEN <<correct, total>> ELSE <<0, 1>>],
      per_field |-> Averages(FoldBuckets(NoBuckets, all_results, "field")),
      per_sequence_view |->
        Averages(FoldBuckets(NoBuckets, all_results, "sequence_view")),
      per_question_type |->
        Averages(FoldBuckets(NoBuckets, all_results, "question_type"))]

\* ------------------------------------------------------------------------
\* The result store: _load_existing_results and _save_single_result
\* ------------------------------------------------------------------------
\* a file: content is the list json.dump wrote; valid is false for a file
\* a failed write left truncated
NoFile == [exists |-> FALSE, valid |-> FALSE, content |-> <<>>]

FileOf(content) == [exists |-> TRUE, valid |-> TRUE, content |-> content]

TruncatedFile == [exists |-> TRUE, valid |-> FALSE, content |-> <<>>]

\* {item['qid']: item for item in existing_results}.values(): one item per
\* qid, at the place of the first, with the value of the last
DictByQid(results) ==
  LET firsts == {i \in DOMAIN results :
                   \A j \in 1..i - 1 : results[j].qid # results[i].qid}
      last(i) == Max({j \in DOMAIN results : results[j].qid = results[i].qid})
      Pick[i \in 0..Len(results)] ==
        IF i = 0 THEN <<>>
        ELSE IF i \in firsts THEN Append(Pick[i - 1], results[last(i)])
        ELSE Pick[i - 1]
  IN Pick[Len(results)]

\* a faulty variant: the existing store is never read
LoadNothing(has_output_dir, resuming, file) == <<>>

\* a faulty variant: a load that does not look at resume and output_dir
LoadIgnoringFlags(has_output_dir, resuming, file) ==
  IF file.exists /\ file.valid THEN DictByQid(file.content) ELSE <<>>

\* the list of the loaded records ({} when there is nothing to resume)
_load_existing_results(has_output_dir, resuming, file) ==
  IF ~has_output_dir \/ ~resuming THEN <<>>
  ELSE IF ~file.exists THEN <<>>
  ELSE IF ~file.valid THEN <<>>
  ELSE DictByQid(file.content)

\* faulty variants: a save that never replaces the record of the qid
AlwaysAppend(result_item, all_results) == Append(all_results, result_item)

AlwaysPrepend(result_item, all_results) == <<result_item>> \o all_results

\* the update of all_results inside the lock: replace the first record of
\* the qid, or append
_save_single_result(result_item, all_results) ==
  LET same == {i \in DOMAIN all_results : all_results[i].qid = result_item.qid}
  IN IF same # {}
     THEN [all_results EXCEPT ![Min(same)] = result_item]
     ELSE Append(all_results, result_item)

\* ------------------------------------------------------------------------
\* Prior stores: what an earlier run left in detailed_results.json
\* ------------------------------------------------------------------------
\* the record an earlier rule-based run wrote for question i under stub k
PriorRecord(i, k) ==
  ProcessQuestion(QuestionPool[i], Reply(k, i), FALSE, JudgeReply(0, i))

\* the legacy shape: is_correct stored as the list [is_correct, metrics],
\* accuracy stored as it was
LegacyRecord(r, accuracy) ==
  [r EXCEPT !.legacy = <<[accuracy |-> r.accuracy]>>, !.accuracy = accuracy]

\* a record whose accuracy disagrees with is_correct
InconsistentRecord(r) == [r EXCEPT !.accuracy = 1 - r.accuracy]

PriorLists ==
  {<<PriorRecord(1, 0)>>,
   <<LegacyRecord(PriorRecord(1, 0), 0), PriorRecord(2, 1)>>,
   <<InconsistentRecord(PriorRecord(1, 0)), PriorRecord(5, 0)>>,
   <<PriorRecord(2, 0), LegacyRecord(PriorRecord(1, 2), 1), PriorRecord(3, 0)>>}

PriorStores == {NoFile} \cup {FileOf(l) : l \in PriorLists}

\* ------------------------------------------------------------------------
\* State
\* ------------------------------------------------------------------------
VARIABLES
  max_workers,        \* BenchmarkEvaluator.max_workers
  resume,             \* BenchmarkEvaluator.resume
  output_dir,         \* whether BenchmarkEvaluator.output_dir is set
  stub,               \* the deterministic test_model
  judge,              \* the judge_model (0: none)
  questions,          \* the input set
  prior,              \* detailed_results.json as the run found it
  detailed_file,      \* detailed_results.json
  summary_file,       \* summary.json
  all_results,        \* the working set
  completed_qids,     \* BenchmarkEvaluator.completed_qids
  existing_qids,      \* the keys of existing_results
  detailed_results,   \* the list the mode's loop returns
  correct,            \* evaluate's counter
  per_field,          \* evaluate's buckets
  per_sequence_view,
  per_question_type,
  pc,                 \* where evaluate / main is
  next,               \* the question the sequential loop is at
  task,               \* per question: where its processing is
  save_lock,          \* holder of _save_lock (0: free)
  predict_calls,      \* per question: invocations of test_model.predict
  disk_failures,      \* failed writes so far
  result,             \* the EvaluationResult, once returned
  last_upsert,        \* per qid: the record most recently upserted
  restarts,           \* times the process was stopped and started again
  call                \* a call of AnswerEvaluator on its own: arguments, results

vars ==
  <<max_workers, resume, output_dir, stub, judge, questions, prior,
    detailed_file, summary_file, all_results, completed_qids, existing_qids,
    detailed_results, correct, per_field, per_sequence_view, per_question_type,
    pc, next, task, save_lock, predict_calls, disk_failures, result,
    last_upsert, restarts, call>>

config ==
  <<max_workers, resume, output_dir, stub, judge, questions, prior, restarts,
    call>>

\* no call of AnswerEvaluator on its own
NoCall ==
  [predicted |-> <<>>, ground_truth |-> <<>>, is_multiple_choice |-> FALSE,
   returned |-> <<>>, returned_multiple |-> <<>>]

stats == <<correct, per_field, per_sequence_view, per_question_type>>

N == Len(questions)

Sequential == max_workers <= 1

NoItem == <<>>

NewTask == [st |-> "pending", item |-> NoItem, summary |-> <<>>]

QidsOf(results) == {results[i].qid : i \in DOMAIN results}

Init ==
  /\ max_workers \in 1..MaxWorkers
  /\ resume \in BOOLEAN
  /\ output_dir \in BOOLEAN
  /\ stub \in Stubs
  /\ judge \in JudgeStubs
  /\ questions = InputQuestions
  /\ prior \in PriorStores
  /\ detailed_file = prior
  /\ summary_file = IF prior.exists
                    THEN FileOf(<<SummaryOf(prior.content)>>) ELSE NoFile
  /\ all_results = <<>>
  /\ completed_qids = {}
  /\ existing_qids = {}
  /\ detailed_results = <<>>
  /\ correct = 0
  /\ per_field = NoBuckets
  /\ per_sequence_view = NoBuckets
  /\ per_question_type = NoBuckets
  /\ pc = "start"
  /\ next = 1
  /\ task = [i \in 1..NumQuestions |-> NewTask]
  /\ save_lock = 0
  /\ predict_calls = [i \in 1..NumQuestions |-> 0]
  /\ disk_failures = 0
  /\ result = <<>>
  /\ last_upsert = <<>>
  /\ restarts = 0
  /\ call = NoCall

\* ------------------------------------------------------------------------
\* evaluate, first part: load, normalise and fold the existing results
\* ------------------------------------------------------------------------
\* _get_is_correct: bool(list[0]) of a legacy list, else bool(value)
_get_is_correct(r) == r.is_correct

\* a faulty variant: the loaded record is used as it was stored
Unrepaired(r) == r

\* the in-place repair of a loaded record
Normalize(r) ==
  LET unlisted == IF r.legacy # <<>>
                  THEN [r EXCEPT !.accuracy = Get(r.legacy[1], "accuracy", 0),
                                 !.legacy = <<>>]
                  ELSE r
  IN IF unlisted.is_correct /\ unlisted.accuracy = 0
     THEN [unlisted EXCEPT !.accuracy = 1]
     ELSE IF ~unlisted.is_correct /\ unlisted.accuracy = 1
     THEN [unlisted EXCEPT !.accuracy = 0]
     ELSE unlisted

\* a faulty variant: the store is loaded whether or not the run resumes
ExistingResultsWithoutResume ==
  IF output_dir THEN LoadIgnoringFlags(output_dir, resume, detailed_file) ELSE <<>>

\* "if self.resume and self.output_dir:
\*      existing_results = self._load_existing_results()"
existing_results ==
  IF resume /\ output_dir
  THEN _load_existing_results(output_dir, resume, detailed_file)
  ELSE <<>>

Load ==
  /\ pc = "start"
  /\ LET existing == existing_results
         fixed == [i \in DOMAIN existing |-> Normalize(existing[i])]
     IN /\ all_results' = fixed
        /\ existing_qids' = QidsOf(existing)
        /\ completed_qids' = IF resume /\ output_dir THEN QidsOf(existing)
                             ELSE completed_qids
        /\ correct' = CountTrue([i \in DOMAIN existing |-> _get_is_correct(existing[i])])
        /\ per_field' = FoldBuckets(NoBuckets, fixed, "field")
        /\ per_sequence_view' = FoldBuckets(NoBuckets, fixed, "sequence_view")
        /\ per_question_type' = FoldBuckets(NoBuckets, fixed, "question_type")
        \* questions_to_process of _evaluate_concurrent
        /\ task' = [i \in DOMAIN task |->
                      IF ~Sequential /\ questions[i].qid \in completed_qids'
                      THEN [task[i] EXCEPT !.st = "skipped"] ELSE task[i]]
  /\ pc' = "processing"
  /\ UNCHANGED <<config, detailed_file, summary_file, detailed_results, next,
                 save_lock, predict_calls, disk_failures, result, last_upsert>>

\* result_item of question i under the run's stubs
ItemOf(i) ==
  ProcessQuestion(questions[i], Reply(stub, i), judge # 0, JudgeReply(judge, i))

\* what a failed write of detailed_results.json leaves: open() failed and
\* the file is as it was, or json.dump failed and the file is truncated
FailedWrite(file) == {file, TruncatedFile}

\* ------------------------------------------------------------------------
\* _evaluate_sequential
\* ------------------------------------------------------------------------
\* "if question.qid in self.completed_qids: continue"
SeqSkip ==
  /\ pc = "processing" /\ Sequential /\ next <= N
  /\ task[next].st = "pending"
  /\ questions[next].qid \in completed_qids
  /\ task' = [task EXCEPT ![next].st = "skipped"]
  /\ next' = next + 1
  /\ UNCHANGED <<config, detailed_file, summary_file, all_results, completed_qids,
                 existing_qids, detailed_results, stats, pc, save_lock,
                 predict_calls, disk_failures, result, last_upsert>>

\* prompt, predict, parse, score, detailed_results.append(result_item)
SeqPredict ==
  /\ pc = "processing" /\ Sequential /\ next <= N
  /\ task[next].st = "pending"
  /\ questions[next].qid \notin completed_qids
  /\ predict_calls' = [predict_calls EXCEPT ![next] = @ + 1]
  /\ detailed_results' = Append(detailed_results, ItemOf(next))
  /\ IF output_dir
     THEN /\ task' = [task EXCEPT ![next].st = "scored", ![next].item = <<ItemOf(next)>>]
          /\ next' = next
     ELSE /\ task' = [task EXCEPT ![next].st = "done", ![next].item = <<ItemOf(next)>>]
          /\ next' = next + 1
  /\ UNCHANGED <<config, detailed_file, summary_file, all_results, completed_qids,
                 existing_qids, stats, pc, save_lock, disk_failures, result,
                 last_upsert>>

\* a faulty variant: the record is saved, summary.json is left as it was
SeqPersistWithoutSummary ==
  /\ pc = "processing" /\ Sequential /\ next <= N
  /\ task[next].st = "scored"
  /\ all_results' = _save_single_result(task[next].item[1], all_results)
  /\ detailed_file' = FileOf(all_results')
  /\ completed_qids' = completed_qids \cup {questions[next].qid}
  /\ task' = [task EXCEPT ![next].st = "done"]
  /\ next' = next + 1
  /\ UNCHANGED <<config, summary_file, existing_qids, detailed_results, stats, pc,
                 save_lock, predict_calls, disk_failures, result, last_upsert>>

\* _save_single_result, _update_summary, completed_qids.add
SeqPersist ==
  /\ pc = "processing" /\ Sequential /\ next <= N
  /\ task[next].st = "scored"
  /\ all_results' = _save_single_result(task[next].item[1], all_results)
  /\ detailed_file' = FileOf(all_results')
  /\ summary_file' = FileOf(<<SummaryOf(all_results')>>)
  /\ completed_qids' = completed_qids \cup {questions[next].qid}
  /\ task' = [task EXCEPT ![next].st = "done"]
  /\ next' = next + 1
  /\ UNCHANGED <<config, existing_qids, detailed_results, stats, pc, save_lock,
                 predict_calls, disk_failures, result, last_upsert>>

\* the write of detailed_results.json raises: nothing catches it in the
\* loop, it leaves evaluate
SeqPersistFails ==
  /\ pc = "processing" /\ Sequential /\ next <= N
  /\ task[next].st = "scored"
  /\ disk_failures < MaxDiskFailures
  /\ all_results' = _save_single_result(task[next].item[1], all_results)
  /\ detailed_file' \in FailedWrite(detailed_file)
  /\ disk_failures' = disk_failures + 1
  /\ pc' = "aborted"
  /\ UNCHANGED <<config, summary_file, completed_qids, existing_qids,
                 detailed_results, stats, next, task, save_lock, predict_calls,
                 result, last_upsert>>

\* ------------------------------------------------------------------------
\* _evaluate_concurrent: process_question on the pool's threads
\* ------------------------------------------------------------------------
Running == {i \in DOMAIN task : task[i].st \in {"scored", "locked", "written", "computed"}}

\* a free thread takes the next submitted question: the completed check,
\* prompt, predict, parse, score
Start(i) ==
  /\ pc = "processing" /\ ~Sequential
  /\ task[i].st = "pending"
  /\ \A j \in 1..i - 1 : task[j].st # "pending"
  /\ Cardinality(Running) < max_workers
  /\ IF questions[i].qid \in completed_qids
     THEN /\ task' = [task EXCEPT ![i].st = "none"]
          /\ UNCHANGED predict_calls
     ELSE /\ predict_calls' = [predict_calls EXCEPT ![i] = @ + 1]
          /\ task' = [task EXCEPT ![i].st = IF output_dir THEN "scored" ELSE "computed",
                                  ![i].item = <<ItemOf(i)>>]
  /\ UNCHANGED <<config, detailed_file, summary_file, all_results, completed_qids,
                 existing_qids, detailed_results, stats, pc, next, save_lock,
                 disk_failures, result, last_upsert>>

\* _save_single_result: "with self._save_lock", the update of all_results
Upsert(i) ==
  /\ pc = "processing" /\ ~Sequential
  /\ task[i].st = "scored"
  /\ save_lock = 0
  /\ save_lock' = i
  /\ all_results' = _save_single_result(task[i].item[1], all_results)
  /\ task' = [task EXCEPT ![i].st = "locked"]
  /\ UNCHANGED <<config, detailed_file, summary_file, completed_qids, existing_qids,
                 detailed_results, stats, pc, next, predict_calls, disk_failures,
                 result, last_upsert>>

\* _save_single_result: json.dump(all_results), the lock released
WriteDetailed(i) ==
  /\ pc = "processing" /\ ~Sequential
  /\ task[i].st = "locked"
  /\ detailed_file' = FileOf(all_results)
  /\ save_lock' = 0
  /\ task' = [task EXCEPT ![i].st = "written"]
  /\ UNCHANGED <<config, summary_file, all_results, completed_qids, existing_qids,
                 detailed_results, stats, pc, next, predict_calls, disk_failures,
                 result, last_upsert>>

\* the write raises: the lock is released, process_question catches the
\* exception and returns None
WriteDetailedFails(i) ==
  /\ pc = "processing" /\ ~Sequential
  /\ task[i].st = "locked"
  /\ disk_failures < MaxDiskFailures
  /\ detailed_file' \in FailedWrite(detailed_file)
  /\ disk_failures' = disk_failures + 1
  /\ save_lock' = 0
  /\ task' = [task EXCEPT ![i].st = "none"]
  /\ UNCHANGED <<config, summary_file, all_results, completed_qids, existing_qids,
                 detailed_results, stats, pc, next, predict_calls, result,
                 last_upsert>>

\* _update_summary, outside the lock: the statistics of all_results
ComputeSummary(i) ==
  /\ pc = "processing" /\ ~Sequential
  /\ task[i].st = "written"
  /\ task' = [task EXCEPT ![i].st = "computed", ![i].summary = <<SummaryOf(all_results)>>]
  /\ UNCHANGED <<config, detailed_file, summary_file, all_results, completed_qids,
                 existing_qids, detailed_results, stats, pc, next, save_lock,
                 predict_calls, disk_failures, result, last_upsert>>

\* _update_summary: json.dump(summary); completed_qids.add; the future
\* completes and the main thread appends its result
Complete(i) ==
  /\ pc = "processing" /\ ~Sequential
  /\ task[i].st = "computed"
  /\ IF output_dir
     THEN /\ summary_file' = FileOf(task[i].summary)
          /\ completed_qids' = completed_qids \cup {questions[i].qid}
     ELSE UNCHANGED <<summary_file, completed_qids>>
  /\ detailed_results' = Append(detailed_results, task[i].item[1])
  /\ task' = [task EXCEPT ![i].st = "done"]
  /\ UNCHANGED <<config, detailed_file, all_results, existing_qids, stats, pc, next,
                 save_lock, predict_calls, disk_failures, result, last_upsert>>

\* ------------------------------------------------------------------------
\* The end of the run: the merge of _evaluate_concurrent, the second part
\* of evaluate, save_results as main calls it
\* ------------------------------------------------------------------------
\* "Merge all_results with detailed_results (in case of resume)"
Merge(existing, new_results) ==
  LET last(q) == Max({j \in DOMAIN new_results : new_results[j].qid = q})
      replaced == [i \in DOMAIN existing |->
                     IF existing[i].qid \in QidsOf(new_results)
                     THEN new_results[last(existing[i].qid)] ELSE existing[i]]
      Added[j \in 0..Len(new_results)] ==
        IF j = 0 THEN replaced
        ELSE IF new_results[j].qid \in QidsOf(Added[j - 1]) THEN Added[j - 1]
        ELSE Append(Added[j - 1], new_results[j])
  IN Added[Len(new_results)]

\* what the mode's loop returns
Returned ==
  IF ~Sequential /\ resume /\ output_dir
  THEN Merge(all_results, detailed_results)
  ELSE detailed_results

\* "Update statistics from detailed_results": the counter
CountCorrect(results) ==
  CountTrue([i \in DOMAIN results |->
               Truthy(results[i]) /\ ~IsBlank(results[i].answer)])

\* EvaluationResult(...)
EvaluationResult(total, n_correct, fields, views, types, results) ==
  [total |-> total, correct |-> n_correct,
   accuracy |-> IF total > 0 THEN <<n_correct, total>> ELSE <<0, 1>>,
   per_field |-> Averages(fields), per_sequence_view |-> Averages(views),
   per_question_type |-> Averages(types), detailed_results |-> results]

Finished ==
  IF Sequential THEN next > N
  ELSE \A i \in DOMAIN task : task[i].st \in {"done", "none", "skipped"}

Return ==
  /\ pc = "processing" /\ Finished
  /\ detailed_results' = Returned
  /\ all_results' = IF ~Sequential /\ resume /\ output_dir THEN Returned ELSE all_results
  /\ correct' = correct + CountCorrect(Returned)
  /\ per_field' = FoldBuckets(per_field, Returned, "field")
  /\ per_sequence_view' = FoldBuckets(per_sequence_view, Returned, "sequence_view")
  /\ per_question_type' = FoldBuckets(per_question_type, Returned, "question_type")
  /\ result' = <<EvaluationResult(Len(questions), correct', per_field',
                                  per_sequence_view', per_question_type', Returned)>>
  /\ pc' = "returned"
  /\ UNCHANGED <<config, detailed_file, summary_file, completed_qids, existing_qids,
                 next, task, save_lock, predict_calls, disk_failures, last_upsert>>

\* summary of save_results
SavedSummary(r) ==
  [overall |-> [total |-> r.total, correct |-> r.correct, accuracy |-> r.accuracy],
   per_field |-> r.per_field, per_sequence_view |-> r.per_sequence_view,
   per_question_type |-> r.per_question_type]

\* main: evaluator.save_results(result, output_dir)
save_results ==
  /\ pc = "returned" /\ output_dir
  /\ detailed_file' = FileOf(result[1].detailed_results)
  /\ summary_file' = FileOf(<<SavedSummary(result[1])>>)
  /\ pc' = "saved"
  /\ UNCHANGED <<config, all_results, completed_qids, existing_qids,
                 detailed_results, stats, next, task, save_lock, predict_calls,
                 disk_failures, result, last_upsert>>

Next ==
  \/ Load
  \/ SeqSkip
  \/ SeqPredict
  \/ SeqPersist
  \/ SeqPersistFails
  \/ \E i \in 1..NumQuestions : Start(i)
  \/ \E i \in 1..NumQuestions : Upsert(i)
  \/ \E i \in 1..NumQuestions : WriteDetailed(i)
  \/ \E i \in 1..NumQuestions : WriteDetailedFails(i)
  \/ \E i \in 1..NumQuestions : ComputeSummary(i)
  \/ \E i \in 1..NumQuestions : Complete(i)
  \/ Return
  \/ save_results

Spec == Init /\ [][Next]_vars

\* ------------------------------------------------------------------------
\* The result store on its own: any sequence of incremental saves
\* (_save_single_result then _update_summary, as the loops call them) on a
\* working set with unique qids
\* ------------------------------------------------------------------------
\* the records a save may be called with: per question, what a good and
\* what another reply give
StoreRecords == {PriorRecord(i, k) : i \in 1..NumQuestions, k \in {0, 1}}

\* the working sets a run starts from: the loaded, repaired prior stores
StoreInits ==
  {<<>>} \cup {[i \in DOMAIN l |-> Normalize(l[i])] : l \in PriorLists}

\* the history of the calls: the record of the latest call, the record
\* latest saved per qid, whether the latest call repeated the one before,
\* whether the latest call raised, whether it repeated a call that raised,
\* and the working set that call was made on
NoUpserts ==
  [last |-> <<>>, by_qid |-> <<>>, repeated |-> FALSE,
   raised |-> FALSE, retried |-> FALSE, base |-> <<>>]

Upserted(history, r) ==
  [last |-> <<r>>,
   by_qid |-> [q \in DOMAIN history.by_qid \cup {r.qid} |->
                 IF q = r.qid THEN r ELSE history.by_qid[q]],
   repeated |-> history.last = <<r>>,
   raised |-> FALSE,
   retried |-> history.raised /\ history.last = <<r>>,
   base |-> history.base]

\* the history after a call that raised on the working set before
Raised(history, r, before) ==
  [Upserted(history, r) EXCEPT !.raised = TRUE, !.retried = FALSE, !.base = before]

InitStore ==
  /\ max_workers = 1
  /\ resume = TRUE
  /\ output_dir = TRUE
  /\ stub = 0
  /\ judge = 0
  /\ questions = InputQuestions
  /\ all_results \in StoreInits
  /\ prior = FileOf(all_results)
  /\ detailed_file = prior
  /\ summary_file = FileOf(<<SummaryOf(all_results)>>)
  /\ completed_qids = QidsOf(all_results)
  /\ existing_qids = QidsOf(all_results)
  /\ detailed_results = <<>>
  /\ correct = 0
  /\ per_field = NoBuckets
  /\ per_sequence_view = NoBuckets
  /\ per_question_type = NoBuckets
  /\ pc = "store"
  /\ next = 1
  /\ task = [i \in 1..NumQuestions |-> NewTask]
  /\ save_lock = 0
  /\ predict_calls = [i \in 1..NumQuestions |-> 0]
  /\ disk_failures = 0
  /\ result = <<>>
  /\ last_upsert = NoUpserts
  /\ restarts = 0
  /\ call = NoCall

\* self._save_single_result(result_item, all_results);
\* self._update_summary(all_results)
SaveAndSummarize(result_item) ==
  /\ pc = "store"
  /\ all_results' = _save_single_result(result_item, all_results)
  /\ detailed_file' = FileOf(all_results')
  /\ summary_file' = FileOf(<<SummaryOf(all_results')>>)
  /\ last_upsert' = Upserted(last_upsert, result_item)
  /\ UNCHANGED <<config, completed_qids, existing_qids, detailed_results, stats,
                 pc, next, task, save_lock, predict_calls, disk_failures, result>>

NextStore == \E r \in StoreRecords : SaveAndSummarize(r)

SpecStore == InitStore /\ [][NextStore]_vars

\* a save that swallows the exception of its write
SaveFailsSilently(result_item) ==
  /\ pc = "store"
  /\ disk_failures < MaxDiskFailures
  /\ all_results' = _save_single_result(result_item, all_results)
  /\ detailed_file' \in FailedWrite(detailed_file)
  /\ disk_failures' = disk_failures + 1
  /\ summary_file' = FileOf(<<SummaryOf(all_results')>>)
  /\ last_upsert' = Upserted(last_upsert, result_item)
  /\ UNCHANGED <<config, completed_qids, existing_qids, detailed_results, stats,
                 pc, next, task, save_lock, predict_calls, result>>

\* self._save_single_result(result_item, all_results) when the write of
\* detailed_results.json raises: the working set is already updated, the
\* exception leaves _save_single_result and _update_summary is not reached
SaveFails(result_item) ==
  /\ pc = "store"
  /\ disk_failures < MaxDiskFailures
  /\ all_results' = _save_single_result(result_item, all_results)
  /\ detailed_file' \in FailedWrite(detailed_file)
  /\ disk_failures' = disk_failures + 1
  /\ last_upsert' = Raised(last_upsert, result_item, all_results)
  /\ UNCHANGED <<config, summary_file, completed_qids, existing_qids,
                 detailed_results, stats, pc, next, task, save_lock,
                 predict_calls, result>>

NextStoreFaults ==
  \/ \E r \in StoreRecords : SaveAndSummarize(r)
  \/ \E r \in StoreRecords : SaveFails(r)

SpecStoreFaults == InitStore /\ [][NextStoreFaults]_vars

\* ------------------------------------------------------------------------
\* AnswerEvaluator on its own: evaluate and evaluate_multiple_choice are
\* called once each on lists of up to MaxAnswers answers
\* ------------------------------------------------------------------------
\* what extract_answers yields: option letters, with or without their text
PredictedTokens == {<<"A">>, <<"B">>, <<"C">>, <<"B", ".", " ", "T">>}

\* what parse_ground_truth yields: option letters
GroundTruthTokens == {<<"A">>, <<"B">>, <<"C">>}

ListsOf(tokens) == UNION {[1..n -> tokens] : n \in 0..MaxAnswers}

Calls ==
  {[predicted |-> p, ground_truth |-> g, is_multiple_choice |-> m,
    returned |-> <<>>, returned_multiple |-> <<>>] :
     p \in ListsOf(PredictedTokens), g \in ListsOf(GroundTruthTokens),
     m \in BOOLEAN}

InitEvaluate ==
  /\ max_workers = 1
  /\ resume = FALSE
  /\ output_dir = FALSE
  /\ stub = 0
  /\ judge = 0
  /\ questions = InputQuestions
  /\ prior = NoFile
  /\ detailed_file = NoFile
  /\ summary_file = NoFile
  /\ all_results = <<>>
  /\ completed_qids = {}
  /\ existing_qids = {}
  /\ detailed_results = <<>>
  /\ correct = 0
  /\ per_field = NoBuckets
  /\ per_sequence_view = NoBuckets
  /\ per_question_type = NoBuckets
  /\ pc = "evaluator"
  /\ next = 1
  /\ task = [i \in 1..NumQuestions |-> NewTask]
  /\ save_lock = 0
  /\ predict_calls = [i \in 1..NumQuestions |-> 0]
  /\ disk_failures = 0
  /\ result = <<>>
  /\ last_upsert = <<>>
  /\ restarts = 0
  /\ call \in Calls

\* AnswerEvaluator.evaluate(predicted, ground_truth, is_multiple_choice)
Evaluate ==
  /\ pc = "evaluator" /\ call.returned = <<>>
  /\ call' = [call EXCEPT !.returned =
                <<evaluate(call.predicted, call.ground_truth, call.is_multiple_choice)>>]
  /\ UNCHANGED <<max_workers, resume, output_dir, stub, judge, questions, prior,
                 restarts, detailed_file, summary_file, all_results,
                 completed_qids, existing_qids, detailed_results, stats, pc, next,
                 task, save_lock, predict_calls, disk_failures, result, last_upsert>>

\* AnswerEvaluator.evaluate_multiple_choice(predicted, ground_truth)
EvaluateMultipleChoice ==
  /\ pc = "evaluator" /\ call.returned_multiple = <<>>
  /\ call' = [call EXCEPT !.returned_multiple =
                <<evaluate_multiple_choice(call.predicted, call.ground_truth)>>]
  /\ UNCHANGED <<max_workers, resume, output_dir, stub, judge, questions, prior,
                 restarts, detailed_file, summary_file, all_results,
                 completed_qids, existing_qids, detailed_results, stats, pc, next,
                 task, save_lock, predict_calls, disk_failures, result, last_upsert>>

NextEvaluate == Evaluate \/ EvaluateMultipleChoice

SpecEvaluate == InitEvaluate /\ [][NextEvaluate]_vars

\* ------------------------------------------------------------------------
\* The parsers on their own: a reply goes through parse_answer_with_reason
\* and then, as in the loops, through extract_answers; a ground truth goes
\* through parse_ground_truth
\* ------------------------------------------------------------------------
\* what may precede the block of a reply
Preambles ==
  {<<>>,
   <<"O", "k", ".", "\n">>,
   <<"M", "y", " ", "a", "n", "s", "w", "e", "r", ":", " ", "b", "\n">>}

\* X of "Answer: X", with the X that keeps only letters, commas, semicolons
AnswerValues ==
  {[text |-> <<"A">>, normal |-> <<"A">>],
   [text |-> <<"A", ",", "C">>, normal |-> <<"A", ",", "C">>],
   [text |-> <<"A", ",", " ", "C">>, normal |-> <<"A", ",", "C">>],
   [text |-> <<"B", ";", "A">>, normal |-> <<"B", ";", "A">>]}

\* what stands between X and the "Reason" label
LineEnds == {<<"\n">>, <<" ", "\n">>}

\* Y of "Reason: Y", with Y trimmed and cut at its first blank line
ReasonValues ==
  {[text |-> <<"o", "k">>, trimmed |-> <<"o", "k">>],
   [text |-> <<"x", " ", "y", " ">>, trimmed |-> <<"x", " ", "y">>],
   [text |-> <<"o", "k", "\n", "\n", "z">>, trimmed |-> <<"o", "k">>]}

AnswerPrefix == <<"A", "n", "s", "w", "e", "r", ":", " ">>

ReasonPrefix == <<"R", "e", "a", "s", "o", "n", ":", " ">>

NewParse(kind, text, block, answer, reason, letters) ==
  [kind |-> kind, text |-> text, block |-> block, answer |-> answer,
   reason |-> reason, letters |-> letters,
   parsed |-> <<>>, extracted |-> <<>>, truth |-> <<>>]

\* replies that hold a well-formed block
BlockReplies ==
  {NewParse("reply", pre \o AnswerPrefix \o x.text \o e \o ReasonPrefix \o y.text,
            TRUE, x.normal, y.trimmed, <<>>) :
     pre \in Preambles, x \in AnswerValues, e \in LineEnds, y \in ReasonValues}

\* replies without labels: the option letters are scanned
BareReplies ==
  {NewParse("reply", t, FALSE, <<>>, <<>>, <<>>) :
     t \in {<<"A", " ", "a", "n", "d", " ", "C">>, <<"B", ".">>, <<"I", " ", "p", "i", "c", "k", " ", "B", ",", " ", "A">>}}

OptionLetters == {"A", "B", "C"}

\* ground truths "<L1>, <L2>. <text>"
PairGroundTruths ==
  {NewParse("ground_truth", <<l1, ",", " ", l2, ".", " ">> \o <<"x">>,
            FALSE, <<>>, <<>>, <<l1, l2>>) :
     l1 \in OptionLetters, l2 \in OptionLetters}

\* ground truths of the other forms
OtherGroundTruths ==
  {NewParse("ground_truth", t, FALSE, <<>>, <<>>, <<>>) :
     t \in {<<"B", ".", " ", "T", "h", "i", "n">>,
            <<"C", ";", " ", "A">>,
            <<"A", ",", "B", ",", "A">>,
            <<"n", "o", "r", "m", "a", "l">>,
            <<"D", ".", " ", "x", ";", " ", "B", ".", " ", "y">>,
            <<"A">>}}

ParseCalls ==
  BlockReplies \cup BareReplies \cup PairGroundTruths \cup OtherGroundTruths

InitParse ==
  /\ max_workers = 1
  /\ resume = FALSE
  /\ output_dir = FALSE
  /\ stub = 0
  /\ judge = 0
  /\ questions = InputQuestions
  /\ prior = NoFile
  /\ detailed_file = NoFile
  /\ summary_file = NoFile
  /\ all_results = <<>>
  /\ completed_qids = {}
  /\ existing_qids = {}
  /\ detailed_results = <<>>
  /\ correct = 0
  /\ per_field = NoBuckets
  /\ per_sequence_view = NoBuckets
  /\ per_question_type = NoBuckets
  /\ pc = "parser"
  /\ next = 1
  /\ task = [i \in 1..NumQuestions |-> NewTask]
  /\ save_lock = 0
  /\ predict_calls = [i \in 1..NumQuestions |-> 0]
  /\ disk_failures = 0
  /\ result = <<>>
  /\ last_upsert = <<>>
  /\ restarts = 0
  /\ call \in ParseCalls

\* answer_text, reason = self.answer_parser.parse_answer_with_reason(raw_output);
\* if not answer_text: answer_text = raw_output
ParseReply ==
  /\ pc = "parser" /\ call.kind = "reply" /\ call.parsed = <<>>
  /\ call' = [call EXCEPT !.parsed =
                <<AnswerOf(call.text, parse_answer_with_reason(call.text))>>]
  /\ UNCHANGED <<max_workers, resume, output_dir, stub, judge, questions, prior,
                 restarts, detailed_file, summary_file, all_results,
                 completed_qids, existing_qids, detailed_results, stats, pc, next,
                 task, save_lock, predict_calls, disk_failures, result, last_upsert>>

\* predicted_answers = self.answer_extractor.extract_answers(answer_text, ...)
ExtractAnswers ==
  /\ pc = "parser" /\ call.parsed # <<>> /\ call.extracted = <<>>
  /\ call' = [call EXCEPT !.extracted = <<extract_answers(call.parsed[1].answer)>>]
  /\ UNCHANGED <<max_workers, resume, output_dir, stub, judge, questions, prior,
                 restarts, detailed_file, summary_file, all_results,
                 completed_qids, existing_qids, detailed_results, stats, pc, next,
                 task, save_lock, predict_calls, disk_failures, result, last_upsert>>

\* gt_answers = self.answer_extractor.parse_ground_truth(question.ground_truth)
ParseGroundTruth ==
  /\ pc = "parser" /\ call.kind = "ground_truth" /\ call.truth = <<>>
  /\ call' = [call EXCEPT !.truth = <<parse_ground_truth(call.text)>>]
  /\ UNCHANGED <<max_workers, resume, output_dir, stub, judge, questions, prior,
                 restarts, detailed_file, summary_file, all_results,
                 completed_qids, existing_qids, detailed_results, stats, pc, next,
                 task, save_lock, predict_calls, disk_failures, result, last_upsert>>

NextParse == ParseReply \/ ExtractAnswers \/ ParseGroundTruth

SpecParse == InitParse /\ [][NextParse]_vars

\* ------------------------------------------------------------------------
\* The model clients on their own: the retry loop of GPTModelAPI.predict,
\* KsyunModelAPI.predict and QwenModelAPI.predict, entered with the
\* messages prepared
\* ------------------------------------------------------------------------
max_retries == 3

retry_delay == 1

Clients == {"gpt", "ksyun", "qwen"}

\* what one API attempt may do: answer; answer without content; raise
\* RateLimitError (for Qwen, answer with status 429); raise or answer with
\* an error that is retried (connection, timeout, 5xx); raise or answer
\* with any other error
Outcomes == {"ok", "empty", "rate_limit", "retryable", "fatal"}

\* what predict returns for an answer without content: GPTModelAPI fails on
\* content.strip() and returns the error text, KsyunModelAPI returns "",
\* QwenModelAPI returns "Error: Unable to parse response"
EmptyReply(client) == IF client = "ksyun" THEN <<"">> ELSE <<"Error">>

\* a faulty variant: every error is retried
RetryAnyError(outcome, attempt) == outcome # "ok" /\ attempt < max_retries - 1

\* "attempt < max_retries - 1" of the RateLimitError handler, and
\* "is_retryable and attempt < max_retries - 1" of the others
MayRetry(outcome, attempt) ==
  outcome \in {"rate_limit", "retryable"} /\ attempt < max_retries - 1

ClientCalls ==
  {[client |-> c, outcomes |-> o, attempt |-> 0, attempts |-> 0,
    waits |-> <<>>, returned |-> <<>>] :
     c \in Clients, o \in [1..max_retries -> Outcomes]}

InitClient ==
  /\ max_workers = 1
  /\ resume = FALSE
  /\ output_dir = FALSE
  /\ stub = 0
  /\ judge = 0
  /\ questions = InputQuestions
  /\ prior = NoFile
  /\ detailed_file = NoFile
  /\ summary_file = NoFile
  /\ all_results = <<>>
  /\ completed_qids = {}
  /\ existing_qids = {}
  /\ detailed_results = <<>>
  /\ correct = 0
  /\ per_field = NoBuckets
  /\ per_sequence_view = NoBuckets
  /\ per_question_type = NoBuckets
  /\ pc = "client"
  /\ next = 1
  /\ task = [i \in 1..NumQuestions |-> NewTask]
  /\ save_lock = 0
  /\ predict_calls = [i \in 1..NumQuestions |-> 0]
  /\ disk_failures = 0
  /\ result = <<>>
  /\ last_upsert = <<>>
  /\ restarts = 0
  /\ call \in ClientCalls

\* one pass of "for attempt in range(max_retries)": the API call, then the
\* return of the reply, or the sleep and "continue", or the return of the
\* error text; after the loop, "Error: Max retries exceeded"
Attempt ==
  /\ pc = "client" /\ call.returned = <<>>
  /\ IF call.attempt >= max_retries
     THEN call' = [call EXCEPT !.returned = <<"Error">>]
     ELSE LET outcome == call.outcomes[call.attempt + 1]
          IN IF outcome = "ok"
             THEN call' = [call EXCEPT !.attempts = @ + 1, !.returned = <<"reply">>]
             ELSE IF outcome = "empty"
             THEN call' = [call EXCEPT !.attempts = @ + 1,
                                       !.returned = EmptyReply(call.client)]
             ELSE IF MayRetry(outcome, call.attempt)
             THEN call' = [call EXCEPT
                             !.attempts = @ + 1,
                             !.waits = Append(@, retry_delay * (2 ^ call.attempt)),
                             !.attempt = @ + 1]
             ELSE call' = [call EXCEPT !.attempts = @ + 1, !.returned = <<"Error">>]
  /\ UNCHANGED <<max_workers, resume, output_dir, stub, judge, questions, prior,
                 restarts, detailed_file, summary_file, all_results,
                 completed_qids, existing_qids, detailed_results, stats, pc, next,
                 task, save_lock, predict_calls, disk_failures, result, last_upsert>>

NextClient == Attempt

\* the loop is sequential code: when a pass can be made it is made
SpecClient == InitClient /\ [][NextClient]_vars /\ WF_vars(NextClient)

\* ------------------------------------------------------------------------
\* The process is stopped between two questions and started again with
\* --resume on the same question set and output directory: the files stay,
\* the evaluator is constructed anew.
\* ------------------------------------------------------------------------
BetweenQuestions ==
  IF Sequential THEN (IF next > N THEN TRUE ELSE task[next].st = "pending")
  ELSE \A i \in DOMAIN task : task[i].st \in {"pending", "done", "skipped"}

Restart ==
  /\ pc = "processing" /\ BetweenQuestions
  /\ restarts < MaxRestarts
  /\ restarts' = restarts + 1
  /\ resume' = TRUE
  /\ all_results' = <<>>
  /\ completed_qids' = {}
  /\ existing_qids' = {}
  /\ detailed_results' = <<>>
  /\ correct' = 0
  /\ per_field' = NoBuckets
  /\ per_sequence_view' = NoBuckets
  /\ per_question_type' = NoBuckets
  /\ pc' = "start"
  /\ next' = 1
  /\ task' = [i \in 1..NumQuestions |-> NewTask]
  /\ save_lock' = 0
  /\ result' = <<>>
  /\ last_upsert' = <<>>
  /\ UNCHANGED <<max_workers, output_dir, stub, judge, questions, prior,
                 detailed_file, summary_file, predict_calls, disk_failures, call>>

NextRestart == Next \/ Restart

SpecRestart == Init /\ [][NextRestart]_vars

\* ------------------------------------------------------------------------
\* Properties
\* ------------------------------------------------------------------------
\* the qids of the records a resumed run finds in detailed_results.json
LoadedQids ==
  IF resume /\ output_dir /\ prior.exists /\ prior.valid
  THEN QidsOf(prior.content) ELSE {}

\* evaluate has returned (and main may have saved the result)
RunFinished == pc \in {"returned", "saved"}

\* the records of detailed_results.json with the qid
Persisted(qid) ==
  {i \in DOMAIN detailed_file.content : detailed_file.content[i].qid = qid}

\* C1: in a resumed run, sequential or concurrent, test_model.predict is
\* never invoked for a question whose qid is in the loaded
\* detailed_results.json, never more than once for any question, and once
\* the run has finished it has been invoked exactly once for every other
\* question.
C1_PredictOnlyForNewQuestions ==
  (resume /\ output_dir) =>
    \A i \in DOMAIN questions :
      /\ predict_calls[i] <= 1
      /\ questions[i].qid \in LoadedQids => predict_calls[i] = 0
      /\ (RunFinished /\ questions[i].qid \notin LoadedQids) => predict_calls[i] = 1

\* a finished concurrent resumed run that skipped one question and called
\* the model for another
C1_Witness ==
  /\ RunFinished /\ resume /\ output_dir /\ ~Sequential
  /\ \E i \in DOMAIN questions :
       questions[i].qid \in LoadedQids /\ predict_calls[i] = 0
  /\ \E i \in DOMAIN questions :
       questions[i].qid \notin LoadedQids /\ predict_calls[i] = 1

\* C2: when a resumed run has finished and main has saved its result,
\* detailed_results.json holds exactly one record for each qid of the prior
\* store and of the question set, the prior records as they were loaded
\* (repaired where their shape was legacy) and the records of the other
\* questions newly added.
C2_ResumedStoreIsUnion ==
  (pc = "saved" /\ resume) =>
    /\ detailed_file.valid
    /\ QidsOf(detailed_file.content) = LoadedQids \cup QidsOf(questions)
    /\ \A q \in LoadedQids \cup QidsOf(questions) : Cardinality(Persisted(q)) = 1
    /\ \A i \in DOMAIN prior.content :
         Normalize(prior.content[i]) \in ToSet(detailed_file.content)
    /\ \A i \in DOMAIN questions :
         questions[i].qid \notin LoadedQids =>
           ItemOf(i) \in ToSet(detailed_file.content)

\* C3: when a run with an output directory has completed, every question
\* was either skipped because its qid was in the store, or has exactly one
\* record in detailed_results.json.
C3_SkippedOrRecorded ==
  pc = "saved" =>
    \A i \in DOMAIN questions :
      \/ questions[i].qid \in LoadedQids /\ predict_calls[i] = 0
      \/ detailed_file.valid /\ Cardinality(Persisted(questions[i].qid)) = 1

\* the result population: the records of the persisted store, of the
\* working set, of the list the loop builds and of the returned result
ResultPopulation ==
  ToSet(detailed_file.content) \cup ToSet(all_results) \cup ToSet(detailed_results)
    \cup (IF result = <<>> THEN {} ELSE ToSet(result[1].detailed_results))

\* C4: at no time, in any mode and with either scoring, does a record of
\* the result population have is_correct true with an empty or
\* whitespace-only answer.
C4_NoCorrectBlankAnswer ==
  \A r \in ResultPopulation : ~(r.is_correct /\ IsBlank(r.answer))

\* a saved run in which the judge called a blank answer correct and the
\* persisted record of the question is incorrect
C4_Witness ==
  /\ pc = "saved" /\ judge # 0
  /\ \E i \in DOMAIN questions :
       /\ JudgeKind(judge, i) = "true"
       /\ ReplyKind(stub, i) \in {"blank", "raise"}
       /\ predict_calls[i] = 1
       /\ \E r \in ToSet(detailed_file.content) :
            r.qid = questions[i].qid /\ IsBlank(r.answer) /\ ~r.is_correct

\* is_correct = true iff accuracy = 1.0, false iff accuracy = 0.0, and
\* is_correct a boolean
Consistent(r) ==
  /\ r.legacy = <<>>
  /\ r.is_correct <=> r.accuracy = 1
  /\ ~r.is_correct <=> r.accuracy = 0

\* C5: after a run, every record of the returned detailed_results and,
\* once main has saved, of detailed_results.json, newly produced or loaded
\* (legacy-shaped ones included), has is_correct and accuracy consistent.
C5_AccuracyMatchesIsCorrect ==
  /\ RunFinished => \A r \in ToSet(result[1].detailed_results) : Consistent(r)
  /\ pc = "saved" => \A r \in ToSet(detailed_file.content) : Consistent(r)

\* a saved run whose store holds, repaired, a record that was loaded
\* legacy-shaped or with an accuracy contradicting is_correct
C5_Witness ==
  /\ pc = "saved"
  /\ \E i \in DOMAIN prior.content :
       /\ ~Consistent(prior.content[i])
       /\ Normalize(prior.content[i]) \in ToSet(detailed_file.content)

\* the aggregate totals of an EvaluationResult
Totals(r) ==
  [total |-> r.total, correct |-> r.correct, per_field |-> r.per_field,
   per_sequence_view |-> r.per_sequence_view,
   per_question_type |-> r.per_question_type]

\* the records the sequential loop produces for the run's question set,
\* prior store and resume flag: those of the questions not loaded, in order
SequentialNew ==
  LET New[i \in 0..N] ==
        IF i = 0 THEN <<>>
        ELSE IF questions[i].qid \in LoadedQids THEN New[i - 1]
        ELSE Append(New[i - 1], ItemOf(i))
  IN New[N]

\* the totals evaluate returns with max_workers = 1 when no write fails
SequentialTotals ==
  LET existing == _load_existing_results(output_dir, resume, prior)
      fixed == [i \in DOMAIN existing |-> Normalize(existing[i])]
      n_correct == CountTrue([i \in DOMAIN existing |-> _get_is_correct(existing[i])])
  IN Totals(EvaluationResult(
       N, n_correct + CountCorrect(SequentialNew),
       FoldBuckets(FoldBuckets(NoBuckets, fixed, "field"), SequentialNew, "field"),
       FoldBuckets(FoldBuckets(NoBuckets, fixed, "sequence_view"),
                   SequentialNew, "sequence_view"),
       FoldBuckets(FoldBuckets(NoBuckets, fixed, "question_type"),
                   SequentialNew, "question_type"),
       SequentialNew))

\* the sequential run does return these totals
SequentialReturnsItsTotals ==
  (RunFinished /\ Sequential) => Totals(result[1]) = SequentialTotals

\* C6: for the same question set, prior store, resume flag and stub, the
\* totals evaluate returns with max_workers > 1 are, for every
\* interleaving of the workers, those it returns with max_workers = 1.
C6_SameTotalsInBothModes ==
  (RunFinished /\ ~Sequential /\ disk_failures = 0) =>
    Totals(result[1]) = SequentialTotals

\* worker i is between its update of the working set and its write of
\* summary.json
InSection(i) == task[i].st \in {"locked", "written", "computed"}

\* C7: in concurrent mode, whenever no worker is between its upsert and
\* the end of its recompute, summary.json is the summary of exactly the
\* records in detailed_results.json.
C7_SummaryMatchesStore ==
  (pc = "processing" /\ ~Sequential /\ output_dir /\ disk_failures = 0
     /\ \A i \in DOMAIN task : ~InSection(i)) =>
    IF detailed_file.exists
    THEN summary_file = FileOf(<<SummaryOf(detailed_file.content)>>)
    ELSE ~summary_file.exists

\* C8: after any sequence of saves on a working set with unique qids, the
\* working set (and the file written from it) holds at most one record per
\* qid, the record of a saved qid is the one most recently saved, and the
\* records of the other qids are those it started with, none removed.
C8_LastWriteWins ==
  /\ \A i, j \in DOMAIN all_results :
       all_results[i].qid = all_results[j].qid => i = j
  /\ detailed_file = FileOf(all_results)
  /\ \A q \in DOMAIN last_upsert.by_qid :
       \E i \in DOMAIN all_results : all_results[i] = last_upsert.by_qid[q]
  /\ \A i \in DOMAIN prior.content :
       prior.content[i].qid \notin DOMAIN last_upsert.by_qid =>
         \E j \in DOMAIN all_results : all_results[j] = prior.content[i]
  /\ QidsOf(all_results) = QidsOf(prior.content) \cup DOMAIN last_upsert.by_qid

\* a record the working set started with was replaced by a different one,
\* another is untouched, and a record of a new qid was added
C8_Witness ==
  /\ \E i \in DOMAIN prior.content :
       /\ prior.content[i].qid \in DOMAIN last_upsert.by_qid
       /\ last_upsert.by_qid[prior.content[i].qid] # prior.content[i]
  /\ \E i \in DOMAIN prior.content :
       prior.content[i].qid \notin DOMAIN last_upsert.by_qid
  /\ \E q \in DOMAIN last_upsert.by_qid : q \notin QidsOf(prior.content)

\* C9: a save (_save_single_result then _update_summary) with the record
\* of the save just before it leaves detailed_results.json and
\* summary.json as that save left them.
C9_RepeatedSaveChangesNothing ==
  [][(last_upsert.last # <<>> /\ last_upsert'.last = last_upsert.last) =>
       (detailed_file' = detailed_file /\ summary_file' = summary_file)]_vars

\* the latest save repeated the one before it, on a store of several records
C9_Witness ==
  /\ pc = "store" /\ last_upsert.repeated
  /\ Len(detailed_file.content) > 1

\* C10: an exception raised while one question is processed leaves no
\* other question unprocessed: when evaluate is left by an exception, every
\* other question has been skipped or processed.
C10_FailureIsIsolated ==
  pc = "aborted" =>
    \A i \in DOMAIN questions \ {next} : task[i].st \in {"done", "skipped"}

\* the record of a question whose model call failed
IsFailedRecord(r) ==
  /\ r.answer = <<>> /\ r.reason = <<>> /\ r.raw_output = <<>>
  /\ ~r.is_correct /\ r.accuracy = 0
  /\ r.question_type = "Multiple Choice" => Get(r, "hit", 1) = 0

\* C11: when test_model.predict raises for a question, the record the run
\* builds for it has empty answer, reason and raw_output, is_correct false,
\* accuracy 0.0 and, if multiple-choice, hit 0.0; once its save has been
\* done the record is in the working set, and in detailed_results.json
\* when main has saved; and a resumed run that finds such a record in the
\* store does not call the model for its qid.
C11_FailedCallIsRecorded ==
  /\ \A i \in DOMAIN questions :
       (ReplyKind(stub, i) = "raise" /\ task[i].item # NoItem) =>
         /\ IsFailedRecord(task[i].item[1])
         /\ (output_dir /\ task[i].st = "done") =>
              task[i].item[1] \in ToSet(all_results)
         /\ (pc = "saved" /\ task[i].st = "done") =>
              task[i].item[1] \in ToSet(detailed_file.content)
  /\ (resume /\ output_dir /\ prior.exists /\ prior.valid) =>
       \A i \in DOMAIN questions :
         (\E k \in DOMAIN prior.content :
            /\ prior.content[k].qid = questions[i].qid
            /\ IsFailedRecord(prior.content[k])) => predict_calls[i] = 0

\* a saved resumed run that skipped a question whose stored record is that
\* of a failed call, and persisted the record of a call that failed in
\* this run
C11_Witness ==
  /\ pc = "saved" /\ resume
  /\ \E i \in DOMAIN questions :
       /\ ReplyKind(stub, i) = "raise" /\ predict_calls[i] = 1
       /\ \E r \in ToSet(detailed_file.content) :
            r.qid = questions[i].qid /\ IsFailedRecord(r)
  /\ \E i \in DOMAIN questions :
       /\ predict_calls[i] = 0
       /\ \E k \in DOMAIN prior.content :
            /\ prior.content[k].qid = questions[i].qid
            /\ IsFailedRecord(prior.content[k])

\* C12: a final provider failure of a model client (its retries exhausted, or
\* an API error that is not retried) is treated by the orchestrator as no
\* reply: the record of the question has an empty answer and is_correct
\* false, whatever the ground truth.
C12_ProviderFailureIsNoReply ==
  \A i \in DOMAIN questions :
    (ReplyKind(stub, i) = "error" /\ task[i].item # NoItem) =>
      /\ task[i].item[1].answer = <<>>
      /\ ~task[i].item[1].is_correct

\* the sum of the totals of the buckets of one dimension
RECURSIVE SumOfTotals(_, _)
SumOfTotals(buckets, keys) ==
  IF keys = {} THEN 0
  ELSE LET k == CHOOSE x \in keys : TRUE
       IN buckets[k].total + SumOfTotals(buckets, keys \ {k})

BucketTotals(buckets) == SumOfTotals(buckets, DOMAIN buckets)

\* the records the run knows when evaluate returns: the working set kept
\* for the store, or without an output directory the records of this run
WorkingSet == IF output_dir THEN all_results ELSE detailed_results

\* C13: the aggregate buckets evaluate returns fold every known record
\* exactly once: when no write has failed, for each dimension (field,
\* sequence_view, question_type) the bucket totals add up to the number of
\* distinct records of the final working set, in sequential and concurrent
\* mode, with and without resume.
C13_EveryRecordFoldedOnce ==
  (RunFinished /\ disk_failures = 0) =>
    /\ BucketTotals(per_field) = Cardinality(QidsOf(WorkingSet))
    /\ BucketTotals(per_sequence_view) = Cardinality(QidsOf(WorkingSet))
    /\ BucketTotals(per_question_type) = Cardinality(QidsOf(WorkingSet))

\* C14: the detailed_results evaluate returns is the full list: when no
\* write has failed it holds exactly one record for every record of the
\* working set, resumed as well as new, in sequential and concurrent mode.
C14_ReturnedListIsFull ==
  (RunFinished /\ disk_failures = 0) =>
    /\ ToSet(result[1].detailed_results) = ToSet(WorkingSet)
    /\ Len(result[1].detailed_results) = Cardinality(QidsOf(WorkingSet))

\* the records of an uninterrupted run that starts without a store
UninterruptedRecords == {ItemOf(i) : i \in DOMAIN questions}

\* an uninterrupted run that starts without a store and meets no failing
\* write does persist these records
UninterruptedStore ==
  (pc = "saved" /\ ~prior.exists /\ restarts = 0 /\ disk_failures = 0) =>
    ToSet(detailed_file.content) = UninterruptedRecords

\* C15: stop-and-restart equals resume: if a run that starts without a
\* store is stopped between two questions and started again with
\* resume=true on the same question set, and no write fails, then after the
\* second run the persisted store holds the same set of records as after an
\* uninterrupted run, and over both runs together test_model.predict was
\* called exactly once for every question.
C15_RestartEqualsResume ==
  (pc = "saved" /\ ~prior.exists /\ restarts = 1 /\ disk_failures = 0) =>
    /\ ToSet(detailed_file.content) = UninterruptedRecords
    /\ \A i \in DOMAIN questions : predict_calls[i] = 1

\* C16: if the write of detailed_results.json inside an upsert fails, the
\* failure is surfaced to the caller of the upsert (the store is out of
\* step with the working set only when the latest upsert raised), the
\* working set still holds at most one record per qid, and repeating the
\* same upsert afterwards leaves the working set and the persisted store as
\* a single successful upsert of that record would have left them.
C16_FailedUpsertCanBeRepeated ==
  /\ \A i, j \in DOMAIN all_results :
       all_results[i].qid = all_results[j].qid => i = j
  /\ detailed_file # FileOf(all_results) => last_upsert.raised
  /\ last_upsert.retried =>
       /\ all_results = _save_single_result(last_upsert.last[1], last_upsert.base)
       /\ detailed_file = FileOf(all_results)
       /\ summary_file = FileOf(<<SummaryOf(all_results)>>)

\* an upsert of a record new to a working set of several records failed on
\* its write and was repeated with success
C16_Witness ==
  /\ last_upsert.retried /\ disk_failures = 1
  /\ Len(last_upsert.base) > 1
  /\ last_upsert.last[1].qid \notin QidsOf(last_upsert.base)

\* there is nothing to resume from: no detailed_results.json, or resume is
\* off, or there is no output directory
NothingToResume == ~prior.exists \/ ~resume \/ ~output_dir

\* C17: when no detailed_results.json exists, and whenever resume is false
\* or there is no output directory, _load_existing_results returns the
\* empty mapping, and the run then processes every question: none is
\* skipped, and when evaluate has returned test_model.predict has been
\* called once for each.
C17_NothingToResumeProcessesAll ==
  NothingToResume =>
    /\ _load_existing_results(output_dir, resume, prior) = <<>>
    /\ pc # "start" => existing_qids = {}
    /\ \A i \in DOMAIN questions : task[i].st # "skipped"
    /\ RunFinished => \A i \in DOMAIN questions : predict_calls[i] = 1

\* a resumed run with an output directory that holds no
\* detailed_results.json has finished
C17_Witness ==
  /\ RunFinished /\ resume /\ output_dir /\ ~prior.exists
  /\ \A i \in DOMAIN questions : predict_calls[i] = 1

\* C18: in judge mode, when the judge evaluation of a question fails (the
\* judge call raises, or its output cannot be parsed), the record of the
\* question is the one rule-based scoring gives (same is_correct, same
\* metrics), and the question is still recorded.
C18_JudgeFailureFallsBack ==
  \A i \in DOMAIN questions :
    (judge # 0 /\ JudgeKind(judge, i) \in {"nojson", "raise"}
       /\ task[i].item # NoItem) =>
      task[i].item[1] =
        ProcessQuestion(questions[i], Reply(stub, i), FALSE, JudgeReply(judge, i))

\* the leading characters of the entries of a list of answers
LeadingLetters(answers) == {<<answers[i][1]>> : i \in DOMAIN answers}

\* C19: for non-empty predicted and ground-truth lists,
\* AnswerEvaluator.evaluate returns is_correct true exactly when the set of
\* the leading characters of the predicted entries is the set of the
\* ground-truth tokens, whatever the order and the duplicates, for single
\* and multiple choice alike, and accuracy is 1 when is_correct and 0
\* otherwise.
C19_ExactSetMatch ==
  (call.returned # <<>> /\ call.predicted # <<>> /\ call.ground_truth # <<>>) =>
    /\ call.returned[1].is_correct =
         (LeadingLetters(call.predicted) = ToSet(call.ground_truth))
    /\ call.returned[1].metrics.accuracy =
         (IF call.returned[1].is_correct THEN 1 ELSE 0)

\* a single-choice call judged correct although the lists differ in order
\* and in the text of an entry
C19_Witness ==
  /\ call.returned # <<>> /\ ~call.is_multiple_choice
  /\ call.predicted = <<(<<"B", ".", " ", "T">>), (<<"A">>)>>
  /\ call.ground_truth = <<(<<"A">>), (<<"B">>)>>
  /\ call.returned[1].is_correct /\ call.returned[1].metrics.accuracy = 1

\* C20: for non-empty predicted and ground-truth lists,
\* evaluate_multiple_choice returns hit 1 when the set of the leading
\* characters of the predicted entries and the set of the ground-truth
\* tokens have an element in common and hit 0 otherwise, whatever
\* is_correct is.
C20_HitIsIntersection ==
  (call.returned_multiple # <<>> /\ call.predicted # <<>>
     /\ call.ground_truth # <<>>) =>
    call.returned_multiple[1].metrics.hit =
      (IF LeadingLetters(call.predicted) \cap ToSet(call.ground_truth) # {}
       THEN 1 ELSE 0)

\* predicted {A, C} against ground truth {A, B}: not correct, hit 1
C20_Witness ==
  /\ call.returned_multiple # <<>>
  /\ call.predicted = <<(<<"A">>), (<<"C">>)>>
  /\ call.ground_truth = <<(<<"A">>), (<<"B">>)>>
  /\ ~call.returned_multiple[1].is_correct
  /\ call.returned_multiple[1].metrics.hit = 1

\* C21: if the predicted list or the ground-truth list is empty,
\* AnswerEvaluator.evaluate returns is_correct false with accuracy 0, and
\* hit 0 for multiple choice, also when both lists are empty.
C21_EmptyListIsIncorrect ==
  (call.returned # <<>> /\ (call.predicted = <<>> \/ call.ground_truth = <<>>)) =>
    /\ ~call.returned[1].is_correct
    /\ call.returned[1].metrics.accuracy = 0
    /\ call.is_multiple_choice => call.returned[1].metrics.hit = 0

\* a multiple-choice call of evaluate with two empty lists has returned
C21_Witness ==
  /\ call.returned # <<>> /\ call.is_multiple_choice
  /\ call.predicted = <<>> /\ call.ground_truth = <<>>
  /\ ~call.returned[1].is_correct

\* C25: when the predicted list and the ground-truth list are both empty,
\* evaluate_multiple_choice returns is_correct true with accuracy 1 and
\* hit 1.
C25_BothEmptyIsFullHit ==
  (call.returned_multiple # <<>> /\ call.predicted = <<>>
     /\ call.ground_truth = <<>>) =>
    /\ call.returned_multiple[1].is_correct
    /\ call.returned_multiple[1].metrics.accuracy = 1
    /\ call.returned_multiple[1].metrics.hit = 1

\* C22: for every reply that holds a well-formed block "Answer: X" on one
\* line followed by "Reason: Y", parse_answer_with_reason returns as answer
\* X without the characters that are no uppercase letter, comma or
\* semicolon, and as reason Y trimmed and cut at its first blank line.
C22_BlockIsParsed ==
  (call.kind = "reply" /\ call.block /\ call.parsed # <<>>) =>
    /\ call.parsed[1].answer = call.answer
    /\ call.parsed[1].reason = call.reason

\* the place of an uppercase letter in the alphabet
LetterRank(c) == CHOOSE i \in DOMAIN UpperSeq : UpperSeq[i] = c

\* a list of one-letter strings in strictly ascending order
Ascending(letters) ==
  \A i, j \in DOMAIN letters :
    i < j => LetterRank(letters[i][1]) < LetterRank(letters[j][1])

\* a list of one-letter strings, each an uppercase letter
AllLetters(tokens) ==
  \A i \in DOMAIN tokens : Len(tokens[i]) = 1 /\ tokens[i][1] \in Upper

\* C23: for a ground truth "<L1>, <L2>. <text>" parse_ground_truth returns
\* exactly the letters L1 and L2, each once and in ascending order; and
\* whenever it returns letters, the list has no duplicate and is sorted.
C23_GroundTruthLettersSorted ==
  (call.kind = "ground_truth" /\ call.truth # <<>>) =>
    /\ call.letters # <<>> =>
         /\ ToSet(call.truth[1]) = {<<call.letters[1]>>, <<call.letters[2]>>}
         /\ Ascending(call.truth[1])
    /\ AllLetters(call.truth[1]) => Ascending(call.truth[1])

\* "C, A. x" has been parsed to A, C
C23_Witness ==
  /\ call.kind = "ground_truth" /\ call.letters = <<"C", "A">>
  /\ call.truth = <<(<<(<<"A">>), (<<"C">>)>>)>>

\* uppercase letters joined by commas or semicolons, without spaces
IsJoinedLetters(a) ==
  /\ Len(a) % 2 = 1
  /\ \A i \in DOMAIN a :
       IF i % 2 = 1 THEN a[i] \in Upper ELSE a[i] \in {",", ";"}

\* the letters of a string, each once, in the order of their first places
LettersOnce(a) ==
  LET keep == {i \in DOMAIN a : a[i] \in Upper /\ \A j \in 1..i - 1 : a[j] # a[i]}
  IN [k \in 1..Cardinality(keep) |->
        <<a[CHOOSE i \in keep : Cardinality({j \in keep : j <= i}) = k]>>]

\* C28: for every answer string AnswerParser produces from a labelled
\* answer or from scanned option letters (uppercase letters joined by
\* commas or semicolons, without spaces), the list extract_answers makes of
\* it for the scorer holds exactly the letters of the string, each once,
\* in their order.
C28_ExtractKeepsEveryLetter ==
  (call.kind = "reply" /\ call.extracted # <<>>
     /\ IsJoinedLetters(call.parsed[1].answer)) =>
    call.extracted[1] = LettersOnce(call.parsed[1].answer)

\* C24: in sequential mode with an output directory, whenever
\* test_model.predict is called for a question, every question before it
\* in the input has been skipped or processed and none after it has been
\* touched, and the record of every question processed before it is in
\* detailed_results.json, with summary.json computed from that store.
C24_SavedBeforeNextCall ==
  [][\A i \in DOMAIN questions :
       (Sequential /\ output_dir /\ predict_calls'[i] > predict_calls[i]) =>
         /\ \A j \in 1..i - 1 : task[j].st \in {"skipped", "done"}
         /\ \A j \in i..N : task[j].st = "pending" /\ predict_calls[j] = 0
         /\ \A j \in 1..i - 1 :
              task[j].st = "done" =>
                /\ predict_calls[j] = 1
                /\ ItemOf(j) \in ToSet(detailed_file.content)
                /\ summary_file = FileOf(<<SummaryOf(detailed_file.content)>>)]_vars

\* the model has been called for the third question while the records of
\* the first two are in the store
C24_Witness ==
  /\ Sequential /\ output_dir /\ pc = "processing"
  /\ next = 3 /\ task[3].st = "scored"
  /\ task[1].st = "done" /\ task[2].st = "done"
  /\ ItemOf(1) \in ToSet(detailed_file.content)
  /\ ItemOf(2) \in ToSet(detailed_file.content)

\* what holds at every point of the retry loop of a client
RetryDiscipline ==
  /\ call.attempts <= max_retries
  /\ Len(call.waits) <= 2
  /\ \A k \in DOMAIN call.waits :
       /\ call.waits[k] = (IF k = 1 THEN 1 ELSE 2)
       /\ call.outcomes[k] \in {"rate_limit", "retryable"}
  /\ call.attempts > 0 =>
       Len(call.waits) = call.attempts - (IF call.returned = <<>> THEN 0 ELSE 1)
  /\ call.returned # <<>> =>
       /\ call.attempts >= 1
       /\ call.returned \in {<<"reply">>, <<"">>, <<"Error">>}
       /\ \/ call.attempts = max_retries
          \/ call.outcomes[call.attempts] \in {"ok", "empty", "fatal"}

BucketsWithinTotal(buckets) ==
  \A k \in DOMAIN buckets : buckets[k].correct <= buckets[k].total

\* C27: in every EvaluationResult evaluate returns (any mode, any prior
\* store, any question set) the overall correct is at most the overall
\* total and in every per-dimension bucket correct is at most total, so no
\* reported accuracy exceeds 1.0.
C27_CorrectWithinTotal ==
  RunFinished =>
    /\ result[1].correct <= result[1].total
    /\ BucketsWithinTotal(result[1].per_field)
    /\ BucketsWithinTotal(result[1].per_sequence_view)
    /\ BucketsWithinTotal(result[1].per_question_type)

\* C29: every multiple-choice record a run produces, under rule-based and
\* under judge scoring, carries a hit field, and is_correct true in such a
\* record implies hit 1.0.
C29_CorrectImpliesHit ==
  \A i \in DOMAIN questions :
    (questions[i].is_multiple_choice /\ task[i].item # NoItem) =>
      /\ "hit" \in DOMAIN task[i].item[1]
      /\ task[i].item[1].is_correct => task[i].item[1].hit = 1

\* a write of detailed_results.json by this run has succeeded
FirstUpsertDone ==
  output_dir /\ \E i \in DOMAIN task : task[i].st \in {"written", "computed", "done"}

\* the records this run has produced so far
CurrentRecords == {task[i].item[1] : i \in {j \in DOMAIN task : task[j].item # NoItem}}

\* C30: when resume is false, evaluate ignores an existing
\* detailed_results.json: nothing is loaded from it and no question is
\* skipped, so a run that ends has sent every question of the input set to
\* the model, and from the first upsert on the persisted store holds only
\* records produced by the current run, the earlier records being discarded.
C30_NoResumeDiscardsStore ==
  (~resume /\ output_dir /\ prior.exists /\ pc # "start") =>
    /\ existing_qids = {}
    /\ \A i \in DOMAIN task : task[i].st # "skipped"
    /\ RunFinished => \A i \in DOMAIN questions : predict_calls[i] = 1
    /\ FirstUpsertDone => ToSet(detailed_file.content) \subseteq CurrentRecords

\* the store held records of q1 and q5; the run called the model for q1
\* and after its first upsert the store holds the new record of q1 alone
C30_Witness ==
  /\ ~resume /\ output_dir /\ prior.valid /\ pc = "processing"
  /\ QidsOf(prior.content) = {"q1", "q5"}
  /\ predict_calls[1] = 1 /\ FirstUpsertDone
  /\ detailed_file.valid /\ QidsOf(detailed_file.content) = {"q1"}

====
